---- MODULE Spec2Model ----
(***************************************************************************)
(* Ethereum beacon light client pallet (ethereum-beacon-client): the four  *)
(* ingress extrinsics, their verification steps and the pallet storage.    *)
(*                                                                         *)
(* 32-byte words are modelled as terms: Chunk(n) is the word holding the   *)
(* number n and sha2_256(a, b) is the pair <<a, b>>, so that two digests   *)
(* are equal exactly when they were computed from equal inputs.            *)
(***************************************************************************)
EXTENDS Integers, Sequences, FiniteSets, TLC

(***************************************************************************)
(* Program constants                                                       *)
(***************************************************************************)
SLOTS_PER_EPOCH == 32
EPOCHS_PER_SYNC_COMMITTEE_PERIOD == 256
CURRENT_SYNC_COMMITTEE_INDEX == 22
CURRENT_SYNC_COMMITTEE_DEPTH == 5
NEXT_SYNC_COMMITTEE_DEPTH == 5
NEXT_SYNC_COMMITTEE_INDEX == 23
FINALIZED_ROOT_DEPTH == 6
FINALIZED_ROOT_INDEX == 41
\* [30, 30, 30, 30]
GENESIS_FORK_VERSION == 30
\* [7, 0, 0, 0]
DOMAIN_SYNC_COMMITTEE == 7

(***************************************************************************)
(* Bounds of the model                                                     *)
(***************************************************************************)
\* bytes of the participation bitfield; the committee has 8 keys per byte
\* (the deployed configuration uses 64 bytes, 512 keys)
CommitteeBytes == 1
\* sync committee periods the submitted headers range over: 0..MaxPeriod
MaxPeriod == 1
\* number of extrinsics dispatched in one behaviour
MaxCalls == 2

SYNC_COMMITTEE_SIZE == 8 * CommitteeBytes

Ok == "Ok"

(***************************************************************************)
(* A. Hash primitives                                                      *)
(***************************************************************************)
Chunk(n) == <<n>>
ZeroHash == Chunk(0)
sha2_256(left, right) == <<left, right>>

(***************************************************************************)
(* B. SSZ hash-tree-root (module merkleization)                            *)
(***************************************************************************)
RECURSIVE merkleize(_)
\* pairwise SHA-256 reduction of a power-of-two number of leaves
merkleize(leaves) ==
  IF Len(leaves) = 1 THEN leaves[1]
  ELSE LET half == Len(leaves) \div 2
       IN sha2_256(merkleize(SubSeq(leaves, 1, half)),
                   merkleize(SubSeq(leaves, half + 1, Len(leaves))))

RECURSIVE next_pow_of_two(_)
next_pow_of_two(n) == IF n <= 1 THEN 1 ELSE 2 * next_pow_of_two((n + 1) \div 2)

\* zero-pad the leaves to the next power of two and merkleize them
merkleize_padded(leaves) ==
  LET n == next_pow_of_two(Len(leaves))
  IN merkleize([i \in 1..n |-> IF i <= Len(leaves) THEN leaves[i] ELSE ZeroHash])

\* a 48-byte public key: two 32-byte leaves
hash_tree_root_pubkey(pubkey) == sha2_256(Chunk(pubkey), ZeroHash)

hash_tree_root_beacon_header(header) ==
  [ok |-> TRUE,
   root |-> merkleize_padded(<<Chunk(header.slot), Chunk(header.proposer_index),
                               header.parent_root, header.state_root,
                               header.body_root>>)]

hash_tree_root_sync_committee(sync_committee) ==
  IF Len(sync_committee.pubkeys) # SYNC_COMMITTEE_SIZE
  THEN [ok |-> FALSE, root |-> ZeroHash]
  ELSE [ok |-> TRUE,
        root |-> sha2_256(
          merkleize_padded([i \in 1..Len(sync_committee.pubkeys) |->
                              hash_tree_root_pubkey(sync_committee.pubkeys[i])]),
          hash_tree_root_pubkey(sync_committee.aggregate_pubkey))]

hash_tree_root_fork_data(fork_data) ==
  [ok |-> TRUE,
   root |-> sha2_256(Chunk(fork_data.current_version), fork_data.genesis_validators_root)]

hash_tree_root_signing_data(signing_data) ==
  [ok |-> TRUE, root |-> sha2_256(signing_data.object_root, signing_data.domain)]

hash_tree_root_execution_payload(payload) ==
  merkleize_padded(<<payload.parent_hash, Chunk(payload.fee_recipient),
                     payload.state_root, payload.receipts_root,
                     Chunk(payload.logs_bloom), payload.prev_randao,
                     Chunk(payload.block_number), Chunk(payload.gas_limit),
                     Chunk(payload.gas_used), Chunk(payload.timestamp),
                     Chunk(payload.extra_data), Chunk(payload.base_fee_per_gas),
                     payload.block_hash, payload.transactions_root>>)

hash_tree_root_beacon_body(body) ==
  [ok |-> TRUE,
   root |-> merkleize_padded(<<hash_tree_root_execution_payload(body.execution_payload)>>)]

\* little-endian packed bitfield -> one byte (0 or 1) per committee member
get_sync_committee_bits(bits_hex) ==
  IF Len(bits_hex) * 8 # SYNC_COMMITTEE_SIZE
  THEN [ok |-> FALSE, bits |-> <<>>]
  ELSE [ok |-> TRUE,
        bits |-> [i \in 1..SYNC_COMMITTEE_SIZE |->
                    (bits_hex[((i - 1) \div 8) + 1] \div (2 ^ ((i - 1) % 8))) % 2]]

(***************************************************************************)
(* D. BLS (milagro_bls).  A public key is the number of its secret key, a  *)
(* value below 1 stands for bytes that are no curve point.  A signature is *)
(* a record: decodable tells whether its bytes decode, signers is the sum  *)
(* of the keys that signed (G1 addition of their public keys) and message  *)
(* is the word they signed.                                                *)
(***************************************************************************)
Signature_from_bytes(signature) == [ok |-> signature.decodable, sig |-> signature]

PublicKey_from_bytes_unchecked(pubkey) == [ok |-> pubkey >= 1, key |-> pubkey]

RECURSIVE fold_sum(_, _, _)
\* what s.iter().fold(0, |acc, x| acc + x) adds up over s[from..to]; the additions
\* never leave the range of the accumulator, so they are taken by halves
fold_sum(s, from, to) ==
  IF from > to THEN 0
  ELSE IF from = to THEN s[from]
  ELSE LET mid == (from + to) \div 2
       IN fold_sum(s, from, mid) + fold_sum(s, mid + 1, to)

SumSeq(s) == fold_sum(s, 1, Len(s))

\* an aggregation that takes the sum of no keys for an aggregate key
AggregatePublicKey_into_aggregate_of_any(keys) == [ok |-> TRUE, key |-> SumSeq(keys)]

AggregatePublicKey_into_aggregate(keys) ==
  IF keys = <<>> THEN [ok |-> FALSE, key |-> 0] ELSE [ok |-> TRUE, key |-> SumSeq(keys)]

\* a pairing check that does not look at the message
fast_aggregate_verify_pre_aggregated_any_message(agg_sig, message, agg_pub_key) ==
  agg_sig.signers = agg_pub_key

fast_aggregate_verify_pre_aggregated(agg_sig, message, agg_pub_key) ==
  agg_sig.signers = agg_pub_key /\ agg_sig.message = message

bls_fast_aggregate_verify(pubkeys, message, signature) ==
  LET sig == Signature_from_bytes(signature)
      agg_pub_key_res == AggregatePublicKey_into_aggregate(pubkeys)
  IN IF ~sig.ok THEN "InvalidSignature"
     ELSE IF \E i \in 1..Len(pubkeys) : ~PublicKey_from_bytes_unchecked(pubkeys[i]).ok
     THEN "InvalidSignaturePoint"
     ELSE IF ~agg_pub_key_res.ok THEN "InvalidAggregatePublicKeys"
     ELSE IF ~fast_aggregate_verify_pre_aggregated(sig.sig, message, agg_pub_key_res.key)
     THEN "SignatureVerificationFailed"
     ELSE Ok

(***************************************************************************)
(* E. Domain and signing root                                              *)
(***************************************************************************)
compute_fork_data_root(current_version, genesis_validators_root) ==
  LET hash_root == hash_tree_root_fork_data(
                     [current_version |-> current_version,
                      genesis_validators_root |-> genesis_validators_root])
  IN IF ~hash_root.ok THEN [err |-> "Other(Fork data hash tree root failed)", root |-> ZeroHash]
     ELSE [err |-> Ok, root |-> hash_root.root]

\* Option<ForkVersion>
Some(fork_version) == <<fork_version>>
None == <<>>

\* domain_type in bytes 0..3, the first 28 bytes of the fork data root behind it
compute_domain(domain_type, fork_version, genesis_validators_root) ==
  LET unwrapped_fork_version ==
        IF fork_version = None THEN GENESIS_FORK_VERSION ELSE fork_version[1]
      fork_data_root == compute_fork_data_root(unwrapped_fork_version, genesis_validators_root)
  IN IF fork_data_root.err # Ok THEN [err |-> fork_data_root.err, domain |-> ZeroHash]
     ELSE [err |-> Ok, domain |-> <<Chunk(domain_type), fork_data_root.root>>]

compute_signing_root(beacon_header, domain) ==
  LET beacon_header_root == hash_tree_root_beacon_header(beacon_header)
      hash_root == hash_tree_root_signing_data(
                     [object_root |-> beacon_header_root.root, domain |-> domain])
  IN IF ~beacon_header_root.ok
     THEN [err |-> "Other(Beacon header hash tree root failed)", root |-> ZeroHash]
     ELSE IF ~hash_root.ok
     THEN [err |-> "Other(Signing root hash tree root failed)", root |-> ZeroHash]
     ELSE [err |-> Ok, root |-> hash_root.root]

(***************************************************************************)
(* C. Merkle branch verifier                                               *)
(***************************************************************************)
\* the bits of the u32 in which the loop computes 2^i
U32_BITS == 32

\* the call does not return: the runtime panics
Panic == <<>>

\* index / (2u32.pow(i as u32) as u64) for i < U32_BITS, where the power fits the
\* u32; the indexes of the model are below 2^31, and at i = 31 the division is
\* made in two steps to stay within them
div_pow2_u32(index, i) ==
  IF i < U32_BITS - 1 THEN index \div (2 ^ i) ELSE (index \div (2 ^ (i - 1))) \div 2

RECURSIVE merkle_fold(_, _, _, _, _)
\* the loop of is_valid_merkle_branch for i = from..depth-1.  From i = U32_BITS on,
\* 2u32.pow(i) overflows: a build with overflow checks panics in pow, a build
\* without them gets 0 and panics in the division by zero
merkle_fold(value, branch, depth, index, i) ==
  IF i >= depth THEN value
  ELSE IF i >= U32_BITS THEN Panic
  ELSE IF (div_pow2_u32(index, i) % 2) = 0
       THEN merkle_fold(sha2_256(value, branch[i + 1]), branch, depth, index, i + 1)
       ELSE merkle_fold(sha2_256(branch[i + 1], value), branch, depth, index, i + 1)

\* the call panics
is_valid_merkle_branch_panics(leaf, branch, depth, index, root) ==
  Len(branch) = depth /\ merkle_fold(leaf, branch, depth, index, 0) = Panic

\* the call returns true
is_valid_merkle_branch(leaf, branch, depth, index, root) ==
  IF Len(branch) # depth THEN FALSE
  ELSE merkle_fold(leaf, branch, depth, index, 0) = root

(***************************************************************************)
(* F. Sync committee store and supermajority                               *)
(***************************************************************************)
get_sync_committee_sum(sync_committee_bits) == SumSeq(sync_committee_bits)

\* the period computed as the epoch of the slot
compute_current_sync_period_as_epoch(slot) == slot \div SLOTS_PER_EPOCH

compute_current_sync_period(slot) ==
  (slot \div SLOTS_PER_EPOCH) \div EPOCHS_PER_SYNC_COMMITTEE_PERIOD

\* the supermajority test with a strict comparison
sync_committee_participation_is_supermajority_strict(sync_committee_bits) ==
  LET sync_committee_sum == get_sync_committee_sum(sync_committee_bits)
  IN IF sync_committee_sum * 3 > Len(sync_committee_bits) * 2 THEN Ok
     ELSE "SyncCommitteeParticipantsNotSupermajority"

sync_committee_participation_is_supermajority(sync_committee_bits) ==
  LET sync_committee_sum == get_sync_committee_sum(sync_committee_bits)
  IN IF sync_committee_sum * 3 >= Len(sync_committee_bits) * 2 THEN Ok
     ELSE "SyncCommitteeParticipantsNotSupermajority"

\* the value a ValueQuery map returns for a key that was never inserted
DefaultSyncCommittee == [pubkeys |-> <<>>, aggregate_pubkey |-> 0]

\* <SyncCommittees<T>>::get(period)
SyncCommittees_get(st, period) ==
  IF period \in DOMAIN st.SyncCommittees THEN st.SyncCommittees[period]
  ELSE DefaultSyncCommittee

\* the getter taking every committee with an all-zero aggregate key for absent
get_sync_committee_for_period_zero_aggregate(st, period) ==
  LET sync_committee == SyncCommittees_get(st, period)
  IN IF DefaultSyncCommittee.aggregate_pubkey = sync_committee.aggregate_pubkey
     THEN [err |-> "SyncCommitteeMissing", sync_committee |-> sync_committee]
     ELSE [err |-> Ok, sync_committee |-> sync_committee]

get_sync_committee_for_period(st, period) ==
  LET sync_committee == SyncCommittees_get(st, period)
  IN IF DefaultSyncCommittee = sync_committee
     THEN [err |-> "SyncCommitteeMissing", sync_committee |-> sync_committee]
     ELSE [err |-> Ok, sync_committee |-> sync_committee]

\* StorageMap::insert
Insert(map, key, value) ==
  [k \in (DOMAIN map) \cup {key} |-> IF k = key THEN value ELSE map[k]]

store_sync_committee(st, period, sync_committee) ==
  [st EXCEPT !.SyncCommittees = Insert(@, period, sync_committee)]

(***************************************************************************)
(* G. Header store                                                         *)
(***************************************************************************)
\* the header store that sets the latest slot to the slot of every header it stores
store_finalized_header_latest_unguarded(st, block_root, header) ==
  [st EXCEPT !.FinalizedBeaconHeaders = Insert(@, block_root, header),
             !.LatestFinalizedHeaderSlot = header.slot]

\* the header store that files the header under its state root
store_finalized_header_under_state_root(st, block_root, header) ==
  LET st1 == [st EXCEPT !.FinalizedBeaconHeaders = Insert(@, header.state_root, header)]
  IN IF header.slot > st1.LatestFinalizedHeaderSlot
     THEN [st1 EXCEPT !.LatestFinalizedHeaderSlot = header.slot]
     ELSE st1

\* the header store that leaves the latest slot alone
store_finalized_header_without_latest(st, block_root, header) ==
  [st EXCEPT !.FinalizedBeaconHeaders = Insert(@, block_root, header)]

\* the header store that files the header among the execution headers as well
store_finalized_header_in_both_maps(st, block_root, header) ==
  LET st1 == [st EXCEPT !.FinalizedBeaconHeaders = Insert(@, block_root, header),
                        !.ExecutionHeaders = Insert(@, block_root, header)]
  IN IF header.slot > st1.LatestFinalizedHeaderSlot
     THEN [st1 EXCEPT !.LatestFinalizedHeaderSlot = header.slot]
     ELSE st1

\* the header store that leaves out a header below the latest finalized slot
store_finalized_header_newer_only(st, block_root, header) ==
  IF header.slot < st.LatestFinalizedHeaderSlot THEN st
  ELSE [st EXCEPT !.FinalizedBeaconHeaders = Insert(@, block_root, header),
                  !.LatestFinalizedHeaderSlot = header.slot]

store_finalized_header(st, block_root, header) ==
  LET slot == header.slot
      st1 == [st EXCEPT !.FinalizedBeaconHeaders = Insert(@, block_root, header)]
      latest_finalized_header_slot == st1.LatestFinalizedHeaderSlot
  IN IF slot > latest_finalized_header_slot
     THEN [st1 EXCEPT !.LatestFinalizedHeaderSlot = slot]
     ELSE st1

\* the execution header store that files the header under its parent hash
store_execution_header_under_parent_hash(st, block_root, header) ==
  [st EXCEPT !.ExecutionHeaders = Insert(@, header.parent_hash, header)]

store_execution_header(st, block_root, header) ==
  [st EXCEPT !.ExecutionHeaders = Insert(@, block_root, header)]

store_validators_root(st, validators_root) ==
  [st EXCEPT !.ValidatorsRoot = validators_root]

(***************************************************************************)
(* H. Verification steps                                                   *)
(***************************************************************************)
\* the committee check reporting the error of the header check
verify_sync_committee_header_error(sync_committee, sync_committee_branch, header_state_root, depth, index) ==
  LET sync_committee_root == hash_tree_root_sync_committee(sync_committee)
  IN IF ~sync_committee_root.ok THEN "Other(Sync committee hash tree root failed)"
     ELSE IF ~is_valid_merkle_branch(sync_committee_root.root, sync_committee_branch,
                                     depth, index, header_state_root)
     THEN "InvalidHeaderMerkleProof"
     ELSE Ok

\* a committee check that accepts every committee branch
verify_sync_committee_unchecked(sync_committee, sync_committee_branch, header_state_root, depth, index) == Ok

verify_sync_committee(sync_committee, sync_committee_branch, header_state_root, depth, index) ==
  LET sync_committee_root == hash_tree_root_sync_committee(sync_committee)
  IN IF ~sync_committee_root.ok THEN "Other(Sync committee hash tree root failed)"
     ELSE IF ~is_valid_merkle_branch(sync_committee_root.root, sync_committee_branch,
                                     depth, index, header_state_root)
     THEN "InvalidSyncCommitteeMerkleProof"
     ELSE Ok

\* a header check that accepts every finality branch
verify_header_unchecked(block_root, proof_branch, attested_header_state_root, depth, index) == Ok

verify_header(block_root, proof_branch, attested_header_state_root, depth, index) ==
  IF ~is_valid_merkle_branch(block_root, proof_branch, depth, index,
                             attested_header_state_root)
  THEN "InvalidHeaderMerkleProof"
  ELSE Ok

\* every public key, whatever its participation bit
participants_all(sync_committee_bits, sync_committee_pubkeys) == sync_committee_pubkeys

\* the public keys whose participation bit is 1 (bits zipped with the keys)
RECURSIVE participants(_, _)
participants(sync_committee_bits, sync_committee_pubkeys) ==
  IF sync_committee_bits = <<>> \/ sync_committee_pubkeys = <<>> THEN <<>>
  ELSE (IF Head(sync_committee_bits) = 1 THEN <<Head(sync_committee_pubkeys)>> ELSE <<>>)
       \o participants(Tail(sync_committee_bits), Tail(sync_committee_pubkeys))

\* a signature check that asks for a supermajority of participants first
verify_signed_header_of_supermajority(sync_committee_bits, sync_committee_signature, sync_committee_pubkeys, fork_version, header, validators_root) ==
  LET supermajority == sync_committee_participation_is_supermajority(sync_committee_bits)
      participant_pubkeys == participants(sync_committee_bits, sync_committee_pubkeys)
      domain == compute_domain(DOMAIN_SYNC_COMMITTEE, Some(fork_version), validators_root)
      signing_root == compute_signing_root(header, domain.domain)
  IN IF supermajority # Ok THEN supermajority
     ELSE IF domain.err # Ok THEN domain.err
     ELSE IF signing_root.err # Ok THEN signing_root.err
     ELSE bls_fast_aggregate_verify(participant_pubkeys, signing_root.root,
                                    sync_committee_signature)

verify_signed_header(sync_committee_bits, sync_committee_signature, sync_committee_pubkeys, fork_version, header, validators_root) ==
  LET participant_pubkeys == participants(sync_committee_bits, sync_committee_pubkeys)
      domain == compute_domain(DOMAIN_SYNC_COMMITTEE, Some(fork_version), validators_root)
      signing_root == compute_signing_root(header, domain.domain)
  IN IF domain.err # Ok THEN domain.err
     ELSE IF signing_root.err # Ok THEN signing_root.err
     ELSE bls_fast_aggregate_verify(participant_pubkeys, signing_root.root,
                                    sync_committee_signature)

(***************************************************************************)
(* H. Update state machine: the four process functions.  Each takes the    *)
(* storage st as the call finds it and yields the error it returns (Ok for *)
(* success) with the storage as the call leaves it at its return.          *)
(***************************************************************************)
Res(err, st) == [err |-> err, st |-> st]

process_initial_sync(st, initial_sync) ==
  LET verified == verify_sync_committee(initial_sync.current_sync_committee,
                                        initial_sync.current_sync_committee_branch,
                                        initial_sync.header.state_root,
                                        CURRENT_SYNC_COMMITTEE_DEPTH,
                                        CURRENT_SYNC_COMMITTEE_INDEX)
      period == compute_current_sync_period(initial_sync.header.slot)
      st1 == store_sync_committee(st, period, initial_sync.current_sync_committee)
      block_root == hash_tree_root_beacon_header(initial_sync.header)
      st2 == store_finalized_header(st1, block_root.root, initial_sync.header)
      st3 == store_validators_root(st2, initial_sync.validators_root)
  IN IF verified # Ok THEN Res(verified, st)
     ELSE IF ~block_root.ok THEN Res("Other(Header hash tree root failed)", st1)
     ELSE Res(Ok, st3)

process_sync_committee_period_update(st, update) ==
  LET sync_committee_bits == get_sync_committee_bits(update.sync_aggregate.sync_committee_bits)
      supermajority == sync_committee_participation_is_supermajority(sync_committee_bits.bits)
      committee_verified == verify_sync_committee(update.next_sync_committee,
                                                  update.next_sync_committee_branch,
                                                  update.finalized_header.state_root,
                                                  NEXT_SYNC_COMMITTEE_DEPTH,
                                                  NEXT_SYNC_COMMITTEE_INDEX)
      block_root == hash_tree_root_beacon_header(update.finalized_header)
      header_verified == verify_header(block_root.root, update.finality_branch,
                                       update.attested_header.state_root,
                                       FINALIZED_ROOT_DEPTH, FINALIZED_ROOT_INDEX)
      current_period == compute_current_sync_period(update.attested_header.slot)
      st1 == store_sync_committee(st, current_period + 1, update.next_sync_committee)
      current_sync_committee == SyncCommittees_get(st1, current_period)
      validators_root == st1.ValidatorsRoot
      signed == verify_signed_header(sync_committee_bits.bits,
                                     update.sync_aggregate.sync_committee_signature,
                                     current_sync_committee.pubkeys,
                                     update.fork_version,
                                     update.attested_header,
                                     validators_root)
      st2 == store_finalized_header(st1, block_root.root, update.finalized_header)
  IN IF ~sync_committee_bits.ok THEN Res("Other(Couldn't process sync committee bits)", st)
     ELSE IF supermajority # Ok THEN Res(supermajority, st)
     ELSE IF committee_verified # Ok THEN Res(committee_verified, st)
     ELSE IF ~block_root.ok THEN Res("Other(Header hash tree root failed)", st)
     ELSE IF header_verified # Ok THEN Res(header_verified, st)
     ELSE IF signed # Ok THEN Res(signed, st1)
     ELSE Res(Ok, st2)

process_finalized_header(st, update) ==
  LET sync_committee_bits == get_sync_committee_bits(update.sync_aggregate.sync_committee_bits)
      supermajority == sync_committee_participation_is_supermajority(sync_committee_bits.bits)
      block_root == hash_tree_root_beacon_header(update.finalized_header)
      header_verified == verify_header(block_root.root, update.finality_branch,
                                       update.attested_header.state_root,
                                       FINALIZED_ROOT_DEPTH, FINALIZED_ROOT_INDEX)
      current_period == compute_current_sync_period(update.attested_header.slot)
      sync_committee == get_sync_committee_for_period(st, current_period)
      validators_root == st.ValidatorsRoot
      signed == verify_signed_header(sync_committee_bits.bits,
                                     update.sync_aggregate.sync_committee_signature,
                                     sync_committee.sync_committee.pubkeys,
                                     update.fork_version,
                                     update.attested_header,
                                     validators_root)
  IN IF ~sync_committee_bits.ok THEN Res("Other(Couldn't process sync committee bits)", st)
     ELSE IF supermajority # Ok THEN Res(supermajority, st)
     ELSE IF ~block_root.ok THEN Res("Other(Header hash tree root failed)", st)
     ELSE IF header_verified # Ok THEN Res(header_verified, st)
     ELSE IF sync_committee.err # Ok THEN Res(sync_committee.err, st)
     ELSE IF signed # Ok THEN Res(signed, st)
     ELSE Res(Ok, store_finalized_header(st, block_root.root, update.finalized_header))

\* the slot check, one slot too lenient
block_not_finalized_off_by_one(block_slot, latest_finalized_header_slot) ==
  block_slot > latest_finalized_header_slot + 1

\* the condition under which process_header refuses a block
block_not_finalized(block_slot, latest_finalized_header_slot) ==
  block_slot > latest_finalized_header_slot

process_header(st, update) ==
  LET latest_finalized_header_slot == st.LatestFinalizedHeaderSlot
      block_slot == update.block.slot
      current_period == compute_current_sync_period(update.block.slot)
      sync_committee == get_sync_committee_for_period(st, current_period)
      body_root == hash_tree_root_beacon_body(update.block.body)
      header == [slot |-> update.block.slot,
                 proposer_index |-> update.block.proposer_index,
                 parent_root |-> update.block.parent_root,
                 state_root |-> update.block.state_root,
                 body_root |-> body_root.root]
      validators_root == st.ValidatorsRoot
      sync_committee_bits == get_sync_committee_bits(update.sync_aggregate.sync_committee_bits)
      signed == verify_signed_header(sync_committee_bits.bits,
                                     update.sync_aggregate.sync_committee_signature,
                                     sync_committee.sync_committee.pubkeys,
                                     update.fork_version,
                                     header,
                                     validators_root)
      execution_payload == update.block.body.execution_payload
  IN IF block_not_finalized(block_slot, latest_finalized_header_slot)
     THEN Res("HeaderNotFinalized", st)
     ELSE IF sync_committee.err # Ok THEN Res(sync_committee.err, st)
     ELSE IF ~body_root.ok THEN Res("Other(Beacon body hash tree root failed)", st)
     ELSE IF ~sync_committee_bits.ok THEN Res("Other(Couldn't process sync committee bits)", st)
     ELSE IF signed # Ok THEN Res(signed, st)
     ELSE Res(Ok, store_execution_header(st, execution_payload.block_hash,
            [parent_hash |-> execution_payload.parent_hash,
             fee_recipient |-> execution_payload.fee_recipient,
             state_root |-> execution_payload.state_root,
             receipts_root |-> execution_payload.receipts_root,
             logs_bloom |-> execution_payload.logs_bloom,
             prev_randao |-> execution_payload.prev_randao,
             block_number |-> execution_payload.block_number,
             gas_used |-> execution_payload.gas_used,
             gas_limit |-> execution_payload.gas_limit,
             timestamp |-> execution_payload.timestamp,
             extra_data |-> execution_payload.extra_data,
             base_fee_per_gas |-> execution_payload.base_fee_per_gas,
             block_hash |-> execution_payload.block_hash,
             transactions_root |-> execution_payload.transactions_root]))

\* ensure_signed(origin)?
ensure_signed(origin) == IF origin = "Signed" THEN Ok ELSE "BadOrigin"

\* a storage layer that commits the writes of every call
transactional_without_rollback(st, res) == res.st

\* #[transactional]: the storage layer commits the writes of a call that
\* returns Ok and discards the writes of a call that returns an error
transactional(st, res) == IF res.err = Ok THEN res.st ELSE st

(***************************************************************************)
(* Inputs: the payloads submitted to the extrinsics.  They are the updates *)
(* an honest relayer builds from the beacon chain (branches that prove,    *)
(* signatures of a committee over the attested header) and their tampered  *)
(* variants.                                                               *)
(***************************************************************************)
SlotsPerPeriod == SLOTS_PER_EPOCH * EPOCHS_PER_SYNC_COMMITTEE_PERIOD
\* slot 0, a later slot of period 0, and the first slot of every later period
Slots == {0, 5} \cup {p * SlotsPerPeriod : p \in 1..MaxPeriod}

ValidatorsRootA == Chunk(11)
ValidatorsRootB == Chunk(12)
\* the fork version the chain signs under
ForkVersion == GENESIS_FORK_VERSION

CommitteeA ==
  [pubkeys |-> [i \in 1..SYNC_COMMITTEE_SIZE |-> i],
   aggregate_pubkey |-> SumSeq([i \in 1..SYNC_COMMITTEE_SIZE |-> i])]
CommitteeB ==
  [pubkeys |-> [i \in 1..SYNC_COMMITTEE_SIZE |-> SYNC_COMMITTEE_SIZE + i],
   aggregate_pubkey |-> SumSeq([i \in 1..SYNC_COMMITTEE_SIZE |-> SYNC_COMMITTEE_SIZE + i])]
Committees == {CommitteeA, CommitteeB}
\* a committee of all-zero public keys with an all-zero aggregate key
ZeroCommittee == [pubkeys |-> [i \in 1..SYNC_COMMITTEE_SIZE |-> 0], aggregate_pubkey |-> 0]
\* a committee with one byte of its aggregate_pubkey changed
TamperedCommittee(c) == [c EXCEPT !.aggregate_pubkey = @ + 1]

Branch(depth) == [i \in 1..depth |-> Chunk(100 + i)]
TamperedBranch(depth) == [Branch(depth) EXCEPT ![1] = Chunk(99)]
ShortBranch(depth) == SubSeq(Branch(depth), 1, depth - 1)

Header(slot, state_root) ==
  [slot |-> slot, proposer_index |-> 0, parent_root |-> ZeroHash,
   state_root |-> state_root, body_root |-> ZeroHash]

\* the state root of a beacon state that holds committee c at generalized index
\* `index` below the siblings Branch(depth)
CommitteeStateRoot(c, depth, index) ==
  merkle_fold(hash_tree_root_sync_committee(c).root, Branch(depth), depth, index, 0)

\* a finalized header of the chain, whose state commits to the next committee c
FinalizedHeader(slot, c) ==
  Header(slot, CommitteeStateRoot(c, NEXT_SYNC_COMMITTEE_DEPTH, NEXT_SYNC_COMMITTEE_INDEX))

\* the header of the slot after `finalized`, whose state holds `finalized` as its
\* finalized checkpoint
AttestedHeader(finalized) ==
  Header(finalized.slot + 1,
         merkle_fold(hash_tree_root_beacon_header(finalized).root,
                     Branch(FINALIZED_ROOT_DEPTH), FINALIZED_ROOT_DEPTH,
                     FINALIZED_ROOT_INDEX, 0))

\* participation bitfields: everyone, 6 of the first 8, 5 of 8 and no others, nobody
AllBits == [i \in 1..CommitteeBytes |-> 255]
SupermajorityBits == [i \in 1..CommitteeBytes |-> IF i = 1 THEN 63 ELSE 255]
MinorityBits == [i \in 1..CommitteeBytes |-> IF i = 1 THEN 31 ELSE 0]
NoBits == [i \in 1..CommitteeBytes |-> 0]
TooManyBits == Append(AllBits, 255)

\* the aggregate signature of the members of c selected by bits_hex over the
\* signing root of header
Sign(c, bits_hex, header, fork_version, validators_root) ==
  [decodable |-> TRUE,
   signers |-> SumSeq(participants(get_sync_committee_bits(bits_hex).bits, c.pubkeys)),
   message |-> compute_signing_root(
                 header,
                 compute_domain(DOMAIN_SYNC_COMMITTEE, Some(fork_version),
                                validators_root).domain).root]
UndecodableSignature == [decodable |-> FALSE, signers |-> 0, message |-> ZeroHash]
\* the aggregate of no signature at all over the signing root of header: what is
\* left to forge for a relayer who holds no key
SignatureOfNobody(header, validators_root) ==
  Sign(DefaultSyncCommittee, AllBits, header, ForkVersion, validators_root)

\* what a relayer can put in place of the signature of CommitteeA over `attested`:
\* bytes that do not decode, its signature over another header, under another
\* validators root, under another fork version
OtherSignatures(attested, other) ==
  {UndecodableSignature,
   Sign(CommitteeA, AllBits, other, ForkVersion, ValidatorsRootA),
   Sign(CommitteeA, AllBits, attested, ForkVersion, ValidatorsRootB),
   Sign(CommitteeA, AllBits, attested, ForkVersion + 1, ValidatorsRootA)}

InitialSync(header, committee, branch, validators_root) ==
  [header |-> header, current_sync_committee |-> committee,
   current_sync_committee_branch |-> branch, validators_root |-> validators_root]

InitialSyncs ==
  LET header(s, c) == Header(s, CommitteeStateRoot(c, CURRENT_SYNC_COMMITTEE_DEPTH,
                                                   CURRENT_SYNC_COMMITTEE_INDEX))
      proof == Branch(CURRENT_SYNC_COMMITTEE_DEPTH)
  IN    {InitialSync(header(s, c), c, proof, v) :
           s \in Slots, c \in Committees, v \in {ValidatorsRootA, ValidatorsRootB}}
   \cup {InitialSync(header(5, c), TamperedCommittee(c), proof, ValidatorsRootA) :
           c \in Committees}
   \cup {InitialSync(header(5, CommitteeA), CommitteeA, b, ValidatorsRootA) :
           b \in {TamperedBranch(CURRENT_SYNC_COMMITTEE_DEPTH),
                  ShortBranch(CURRENT_SYNC_COMMITTEE_DEPTH)}}
   \cup {InitialSync(header(0, c), c, proof, ValidatorsRootA) :
           c \in {ZeroCommittee, DefaultSyncCommittee}}

FinalizedHeaderUpdate(attested, finalized, branch, bits_hex, signature) ==
  [attested_header |-> attested, finalized_header |-> finalized,
   finality_branch |-> branch,
   sync_aggregate |-> [sync_committee_bits |-> bits_hex,
                       sync_committee_signature |-> signature],
   fork_version |-> ForkVersion]

\* the update for the finalized header f signed by the members of c in bits_hex
SignedUpdate(f, c, bits_hex, branch) ==
  FinalizedHeaderUpdate(AttestedHeader(f), f, branch, bits_hex,
                        Sign(c, bits_hex, AttestedHeader(f), ForkVersion, ValidatorsRootA))

\* the tampered variants of the update for f signed by all of CommitteeA
TamperedUpdates(f) ==
       {SignedUpdate(f, CommitteeA, AllBits, b) :
          b \in {TamperedBranch(FINALIZED_ROOT_DEPTH), ShortBranch(FINALIZED_ROOT_DEPTH)}}
  \cup {FinalizedHeaderUpdate(AttestedHeader(f), f, Branch(FINALIZED_ROOT_DEPTH), TooManyBits,
                              Sign(CommitteeA, AllBits, AttestedHeader(f), ForkVersion,
                                   ValidatorsRootA))}
  \cup {FinalizedHeaderUpdate(AttestedHeader(f), f, Branch(FINALIZED_ROOT_DEPTH), AllBits, sig) :
          sig \in OtherSignatures(AttestedHeader(f), f)}

FinalizedHeaderUpdates ==
       {SignedUpdate(FinalizedHeader(s, CommitteeB), CommitteeA, bits_hex,
                     Branch(FINALIZED_ROOT_DEPTH)) :
          s \in Slots, bits_hex \in {AllBits, SupermajorityBits, MinorityBits, NoBits}}
  \cup {SignedUpdate(FinalizedHeader(s, CommitteeB), CommitteeB, AllBits,
                     Branch(FINALIZED_ROOT_DEPTH)) : s \in Slots}
  \cup TamperedUpdates(FinalizedHeader(5, CommitteeB))

SyncCommitteePeriodUpdate(fhu, next, next_branch, sync_committee_period) ==
  [attested_header |-> fhu.attested_header,
   next_sync_committee |-> next,
   next_sync_committee_branch |-> next_branch,
   finalized_header |-> fhu.finalized_header,
   finality_branch |-> fhu.finality_branch,
   sync_aggregate |-> fhu.sync_aggregate,
   fork_version |-> fhu.fork_version,
   sync_committee_period |-> sync_committee_period]

SyncCommitteePeriodUpdates ==
  LET period(fhu) == compute_current_sync_period(fhu.attested_header.slot)
      proof == Branch(NEXT_SYNC_COMMITTEE_DEPTH)
      signed == SignedUpdate(FinalizedHeader(5, CommitteeB), CommitteeA, AllBits,
                             Branch(FINALIZED_ROOT_DEPTH))
  IN    {SyncCommitteePeriodUpdate(
           SignedUpdate(FinalizedHeader(s, next), CommitteeA, bits_hex,
                        Branch(FINALIZED_ROOT_DEPTH)),
           next, proof, compute_current_sync_period(s + 1)) :
           s \in Slots, next \in Committees, bits_hex \in {AllBits, MinorityBits}}
   \cup {SyncCommitteePeriodUpdate(
           SignedUpdate(FinalizedHeader(s, next), CommitteeB, AllBits,
                        Branch(FINALIZED_ROOT_DEPTH)),
           next, proof, compute_current_sync_period(s + 1)) :
           s \in Slots, next \in Committees}
   \cup {SyncCommitteePeriodUpdate(fhu, CommitteeB, proof, period(fhu)) :
           fhu \in TamperedUpdates(FinalizedHeader(5, CommitteeB))}
   \cup {SyncCommitteePeriodUpdate(signed, TamperedCommittee(CommitteeB), proof, period(signed))}
   \cup {SyncCommitteePeriodUpdate(signed, CommitteeB, b, period(signed)) :
           b \in {TamperedBranch(NEXT_SYNC_COMMITTEE_DEPTH),
                  ShortBranch(NEXT_SYNC_COMMITTEE_DEPTH)}}
   \cup {SyncCommitteePeriodUpdate(signed, CommitteeB, proof, period(signed) + 7)}
   \cup {SyncCommitteePeriodUpdate(
           FinalizedHeaderUpdate(signed.attested_header, signed.finalized_header,
                                 signed.finality_branch, AllBits,
                                 SignatureOfNobody(signed.attested_header, ZeroHash)),
           CommitteeB, proof, period(signed))}

ExecutionPayload(block_hash) ==
  [parent_hash |-> ZeroHash, fee_recipient |-> 0, state_root |-> ZeroHash,
   receipts_root |-> ZeroHash, logs_bloom |-> 0, prev_randao |-> ZeroHash,
   block_number |-> 1, gas_limit |-> 0, gas_used |-> 0, timestamp |-> 0,
   extra_data |-> 0, base_fee_per_gas |-> 0, block_hash |-> block_hash,
   transactions_root |-> ZeroHash]

Block(slot, block_hash) ==
  [slot |-> slot, proposer_index |-> 0, parent_root |-> ZeroHash, state_root |-> ZeroHash,
   body |-> [execution_payload |-> ExecutionPayload(block_hash)]]

\* the beacon header of a block
BlockHeader(block) ==
  [slot |-> block.slot, proposer_index |-> block.proposer_index,
   parent_root |-> block.parent_root, state_root |-> block.state_root,
   body_root |-> hash_tree_root_beacon_body(block.body).root]

BlockUpdate(block, bits_hex, signature) ==
  [block |-> block,
   sync_aggregate |-> [sync_committee_bits |-> bits_hex,
                       sync_committee_signature |-> signature],
   fork_version |-> ForkVersion]

\* a block at every slot and at the slot after it
Blocks == {Block(s, Chunk(201)) : s \in Slots \cup {s + 1 : s \in Slots}}
            \cup {Block(5, Chunk(202))}

BlockUpdates ==
       {BlockUpdate(b, bits_hex,
                    Sign(CommitteeA, bits_hex, BlockHeader(b), ForkVersion, ValidatorsRootA)) :
          b \in Blocks, bits_hex \in {AllBits, MinorityBits, NoBits}}
  \cup {BlockUpdate(b, AllBits,
                    Sign(CommitteeB, AllBits, BlockHeader(b), ForkVersion, ValidatorsRootA)) :
          b \in Blocks}
  \cup {BlockUpdate(b, TooManyBits,
                    Sign(CommitteeA, AllBits, BlockHeader(b), ForkVersion, ValidatorsRootA)) :
          b \in {Block(5, Chunk(201))}}
  \cup {BlockUpdate(b, AllBits, sig) :
          b \in {Block(5, Chunk(201))},
          sig \in OtherSignatures(BlockHeader(Block(5, Chunk(201))), Header(5, ZeroHash))}

Origins == {"Signed", "None"}

(***************************************************************************)
(* State                                                                   *)
(***************************************************************************)
VARIABLES
  FinalizedBeaconHeaders,    \* block root -> BeaconHeader
  ExecutionHeaders,          \* execution block hash -> ExecutionHeader
  SyncCommittees,            \* period -> SyncCommittee (written periods only)
  ValidatorsRoot,
  LatestFinalizedHeaderSlot,
  last,                      \* the last call: extrinsic, origin, payload, error returned,
                             \* storage before it, storage at its return point
                             \* (before the storage layer commits or rolls back),
                             \* and whether an initial_sync had succeeded before it
  synced,                    \* TRUE once an initial_sync has succeeded
  calls,                     \* number of calls dispatched
  call                       \* a direct call of one function of the pallet: the
                             \* function, its arguments, and its result once made

vars == <<FinalizedBeaconHeaders, ExecutionHeaders, SyncCommittees, ValidatorsRoot,
          LatestFinalizedHeaderSlot, last, synced, calls, call>>

Storage ==
  [FinalizedBeaconHeaders |-> FinalizedBeaconHeaders,
   ExecutionHeaders |-> ExecutionHeaders,
   SyncCommittees |-> SyncCommittees,
   ValidatorsRoot |-> ValidatorsRoot,
   LatestFinalizedHeaderSlot |-> LatestFinalizedHeaderSlot]

EmptyMap == [k \in {} |-> 0]

\* genesis_build stores nothing: the maps are empty, the values are the defaults
GenesisStorage ==
  [FinalizedBeaconHeaders |-> EmptyMap,
   ExecutionHeaders |-> EmptyMap,
   SyncCommittees |-> EmptyMap,
   ValidatorsRoot |-> ZeroHash,
   LatestFinalizedHeaderSlot |-> 0]

\* no direct call of a function
NoCall == [fn |-> "none", args |-> <<>>, done |-> TRUE, result |-> <<>>]

\* the pallet at genesis
Genesis ==
  /\ FinalizedBeaconHeaders = GenesisStorage.FinalizedBeaconHeaders
  /\ ExecutionHeaders = GenesisStorage.ExecutionHeaders
  /\ SyncCommittees = GenesisStorage.SyncCommittees
  /\ ValidatorsRoot = GenesisStorage.ValidatorsRoot
  /\ LatestFinalizedHeaderSlot = GenesisStorage.LatestFinalizedHeaderSlot
  /\ last = [op |-> "none", origin |-> "Signed", payload |-> <<>>, err |-> Ok,
             pre |-> GenesisStorage, returned |-> GenesisStorage, synced |-> FALSE]
  /\ synced = FALSE
  /\ calls = 0

Init == Genesis /\ call = NoCall

\* an extrinsic: the origin check, the process function, and the storage
\* layer that commits or rolls back
Dispatch(op, origin, payload, res) ==
  LET signed == ensure_signed(origin)
      result == IF signed # Ok THEN Res(signed, Storage) ELSE res
      post == transactional(Storage, result)
  IN /\ calls < MaxCalls
     /\ FinalizedBeaconHeaders' = post.FinalizedBeaconHeaders
     /\ ExecutionHeaders' = post.ExecutionHeaders
     /\ SyncCommittees' = post.SyncCommittees
     /\ ValidatorsRoot' = post.ValidatorsRoot
     /\ LatestFinalizedHeaderSlot' = post.LatestFinalizedHeaderSlot
     /\ last' = [op |-> op, origin |-> origin, payload |-> payload, err |-> result.err,
                 pre |-> Storage, returned |-> result.st, synced |-> synced]
     /\ synced' = (synced \/ (op = "initial_sync" /\ result.err = Ok))
     /\ calls' = calls + 1
     /\ UNCHANGED call

\* the payloads tried with an origin: every payload when it is signed, one otherwise
Submitted(origin, payloads) ==
  IF origin = "Signed" THEN payloads ELSE {CHOOSE p \in payloads : TRUE}

initial_sync ==
  \E origin \in Origins : \E initial_sync_payload \in Submitted(origin, InitialSyncs) :
    Dispatch("initial_sync", origin, initial_sync_payload,
             process_initial_sync(Storage, initial_sync_payload))

sync_committee_period_update ==
  \E origin \in Origins : \E update \in Submitted(origin, SyncCommitteePeriodUpdates) :
    Dispatch("sync_committee_period_update", origin, update,
             process_sync_committee_period_update(Storage, update))

import_finalized_header ==
  \E origin \in Origins : \E update \in Submitted(origin, FinalizedHeaderUpdates) :
    Dispatch("import_finalized_header", origin, update,
             process_finalized_header(Storage, update))

import_execution_header ==
  \E origin \in Origins : \E update \in Submitted(origin, BlockUpdates) :
    Dispatch("import_execution_header", origin, update, process_header(Storage, update))

\* the extrinsic takes no payload and does nothing beyond the origin check
verify_eth1_receipt_inclusion ==
  \E origin \in Origins :
    Dispatch("verify_eth1_receipt_inclusion", origin, <<>>, Res(Ok, Storage))

Next ==
  \/ initial_sync
  \/ sync_committee_period_update
  \/ import_finalized_header
  \/ import_execution_header
  \/ verify_eth1_receipt_inclusion

Spec == Init /\ [][Next]_vars

(***************************************************************************)
(* Direct calls.  A second specification applies one function of the       *)
(* pallet to arguments drawn at the start: the pure helpers on every       *)
(* argument up to a bound, the process functions on a storage the pallet   *)
(* can be in and an update.                                                *)
(***************************************************************************)
\* length up to which every vector of 0 and 1 is a participation vector drawn
MaxBits == 6

BitVectors == UNION {[1..n -> {0, 1}] : n \in 0..MaxBits}

\* the decoded vector of the deployed committee (512 members) with `sum` bits set
BoundaryBits(sum) == [i \in 1..512 |-> IF i <= sum THEN 1 ELSE 0]
BoundaryVectors == {BoundaryBits(sum) : sum \in {341, 342, 384}}

\* the storage after initial_sync of the slot 0 header with CommitteeA
SyncedStorage ==
  process_initial_sync(
    GenesisStorage,
    InitialSync(Header(0, CommitteeStateRoot(CommitteeA, CURRENT_SYNC_COMMITTEE_DEPTH,
                                             CURRENT_SYNC_COMMITTEE_INDEX)),
                CommitteeA, Branch(CURRENT_SYNC_COMMITTEE_DEPTH), ValidatorsRootA)).st

\* the storage after the period update that brings CommitteeB for period 1
RotatedStorage ==
  process_sync_committee_period_update(
    SyncedStorage,
    SyncCommitteePeriodUpdate(
      SignedUpdate(FinalizedHeader(5, CommitteeB), CommitteeA, AllBits,
                   Branch(FINALIZED_ROOT_DEPTH)),
      CommitteeB, Branch(NEXT_SYNC_COMMITTEE_DEPTH), 0)).st

Storages == {GenesisStorage, SyncedStorage, RotatedStorage}

\* updates without a supermajority, with proving and tampered finality branches,
\* signed by the participants or carrying bytes that are no signature
LowParticipationUpdates ==
  LET finalized == FinalizedHeader(5, CommitteeB)
      attested == AttestedHeader(finalized)
  IN {FinalizedHeaderUpdate(attested, finalized, b, bits_hex, sig) :
        b \in {Branch(FINALIZED_ROOT_DEPTH), TamperedBranch(FINALIZED_ROOT_DEPTH),
               ShortBranch(FINALIZED_ROOT_DEPTH)},
        bits_hex \in {MinorityBits, NoBits},
        sig \in {Sign(CommitteeA, MinorityBits, attested, ForkVersion, ValidatorsRootA),
                 UndecodableSignature}}

LowParticipationPeriodUpdates ==
  {SyncCommitteePeriodUpdate(fhu, next, b, 0) :
     fhu \in LowParticipationUpdates,
     next \in {CommitteeB, TamperedCommittee(CommitteeB)},
     b \in {Branch(NEXT_SYNC_COMMITTEE_DEPTH), TamperedBranch(NEXT_SYNC_COMMITTEE_DEPTH)}}

\* updates of a chain that signs under the next fork version: signed under it, and
\* announcing it while signed under the old one
ForkedUpdates ==
  LET finalized == FinalizedHeader(5, CommitteeB)
      attested == AttestedHeader(finalized)
  IN {[FinalizedHeaderUpdate(attested, finalized, Branch(FINALIZED_ROOT_DEPTH), AllBits,
                             Sign(CommitteeA, AllBits, attested, v, ValidatorsRootA))
         EXCEPT !.fork_version = ForkVersion + 1] : v \in {ForkVersion, ForkVersion + 1}}

\* depth up to which every branch over two words is drawn
MaxDepth == 3

RECURSIVE shift_right(_, _)
\* index >> i
shift_right(index, i) == IF i = 0 THEN index ELSE shift_right(index \div 2, i - 1)

RECURSIVE merkle_root_from(_, _, _, _, _)
\* the root a prover computes for the leaf at generalized index `index` below the
\* siblings `branch`: bit i of the index tells on which side sibling i lies
merkle_root_from(value, branch, depth, index, i) ==
  IF i >= depth THEN value
  ELSE IF shift_right(index, i) % 2 = 0
       THEN merkle_root_from(sha2_256(value, branch[i + 1]), branch, depth, index, i + 1)
       ELSE merkle_root_from(sha2_256(branch[i + 1], value), branch, depth, index, i + 1)

merkle_root(leaf, branch, depth, index) == merkle_root_from(leaf, branch, depth, index, 0)

MerkleWords == {Chunk(1), Chunk(2)}
\* every branch of `depth` siblings over the two words
Branches(depth) == [1..depth -> MerkleWords]
MerkleIndexes == 0..(2 ^ (MaxDepth + 1) - 1)
\* long branches: as many siblings as the bit test can take, and one more
LongDepths == {U32_BITS, U32_BITS + 1}
LongBranches(depth) == {Branch(depth), TamperedBranch(depth)}
LongIndexes == {0, 1, 41, 2 ^ 30 + 5}

Call(fn, args) == [fn |-> fn, args |-> args, done |-> FALSE, result |-> <<>>]

SupermajorityCalls ==
  {Call("sync_committee_participation_is_supermajority", [sync_committee_bits |-> bits]) :
     bits \in BitVectors \cup BoundaryVectors}

PeriodUpdateCalls ==
  {Call("process_sync_committee_period_update", [st |-> st, update |-> update]) :
     st \in Storages,
     update \in SyncCommitteePeriodUpdates \cup LowParticipationPeriodUpdates
                \cup {SyncCommitteePeriodUpdate(fhu, CommitteeB,
                                                Branch(NEXT_SYNC_COMMITTEE_DEPTH), 0) :
                        fhu \in ForkedUpdates}}

FinalizedHeaderCalls ==
  {Call("process_finalized_header", [st |-> st, update |-> update]) :
     st \in Storages,
     update \in FinalizedHeaderUpdates \cup LowParticipationUpdates \cup ForkedUpdates}

\* the roots of every leaf and branch drawn at `depth` and `index`, and the zero word
MerkleRoots(depth, index, branches) ==
  {merkle_root(leaf, branch, depth, index) : leaf \in MerkleWords, branch \in branches}
    \cup {ZeroHash}

MerkleCall(leaf, branch, depth, index, root) ==
  Call("is_valid_merkle_branch",
       [leaf |-> leaf, branch |-> branch, depth |-> depth, index |-> index, root |-> root])

\* c calls the verifier at `depth` on a leaf, a branch and an index of those given,
\* with one of the roots drawn for them
MerkleCallAt(c, depth, branches, indexes) ==
  \E index \in indexes, leaf \in MerkleWords, branch \in branches :
    \E root \in MerkleRoots(depth, index, branches) :
      c = MerkleCall(leaf, branch, depth, index, root)

\* c calls the verifier at `depth` on a branch with one sibling fewer or one more,
\* with the root the branch proves at its own length
WrongLengthMerkleCall(c, depth) ==
  \E leaf \in MerkleWords, index \in MerkleIndexes :
    \E branch \in Branches(depth - 1) \cup Branches(depth + 1) :
      c = MerkleCall(leaf, branch, depth, index,
                     merkle_root(leaf, branch, Len(branch), index))

DirectInit ==
  /\ Genesis
  /\ \/ call \in SupermajorityCalls
     \/ call \in PeriodUpdateCalls
     \/ call \in FinalizedHeaderCalls
     \/ \E depth \in 0..MaxDepth :
          MerkleCallAt(call, depth, Branches(depth), MerkleIndexes)
     \/ \E depth \in LongDepths :
          MerkleCallAt(call, depth, LongBranches(depth), LongIndexes)
     \/ \E depth \in 1..MaxDepth : WrongLengthMerkleCall(call, depth)

\* the call returns: its result is recorded, the pallet is left as it is
Return(result) ==
  /\ ~call.done
  /\ call' = [call EXCEPT !.done = TRUE, !.result = result]
  /\ UNCHANGED <<FinalizedBeaconHeaders, ExecutionHeaders, SyncCommittees, ValidatorsRoot,
                 LatestFinalizedHeaderSlot, last, synced, calls>>

call_sync_committee_participation_is_supermajority ==
  /\ call.fn = "sync_committee_participation_is_supermajority"
  /\ Return(sync_committee_participation_is_supermajority(call.args.sync_committee_bits))

call_process_sync_committee_period_update ==
  /\ call.fn = "process_sync_committee_period_update"
  /\ Return(process_sync_committee_period_update(call.args.st, call.args.update))

call_process_finalized_header ==
  /\ call.fn = "process_finalized_header"
  /\ Return(process_finalized_header(call.args.st, call.args.update))

call_is_valid_merkle_branch ==
  /\ call.fn = "is_valid_merkle_branch"
  /\ LET a == call.args
     IN Return([panic |-> is_valid_merkle_branch_panics(a.leaf, a.branch, a.depth,
                                                        a.index, a.root),
                valid |-> is_valid_merkle_branch(a.leaf, a.branch, a.depth, a.index,
                                                 a.root)])

DirectNext ==
  \/ call_is_valid_merkle_branch
  \/ call_sync_committee_participation_is_supermajority
  \/ call_process_sync_committee_period_update
  \/ call_process_finalized_header

DirectSpec == DirectInit /\ [][DirectNext]_vars

(***************************************************************************)
(* Properties                                                              *)
(***************************************************************************)
IngressOperations == {"initial_sync", "sync_committee_period_update",
                      "import_finalized_header", "import_execution_header"}

\* the last call passed the origin check and ran its process function
Ran(op) == last.op = op /\ last.origin = "Signed"

\* C1: a call of any of the four ingress operations that returns an error leaves
\* finalized_headers, execution_headers, sync_committees, validators_root and
\* latest_finalized_slot as they were before the call
C1_ErrorLeavesStorageUnchanged ==
  (last.op \in IngressOperations /\ last.err # Ok) => Storage = last.pre

\* a period update that stored the next committee and then failed, rolled back
C1_Witness ==
  /\ Ran("sync_committee_period_update")
  /\ last.err = "SignatureVerificationFailed"
  /\ last.returned # last.pre
  /\ Storage = last.pre

\* C2: latest_finalized_slot never decreases from one call to the next
C2_LatestSlotMonotonic ==
  [][LatestFinalizedHeaderSlot' >= LatestFinalizedHeaderSlot]_vars

\* a call stored a finalized header whose slot is below the latest finalized slot
C2_Witness ==
  /\ last.op \in {"initial_sync", "sync_committee_period_update", "import_finalized_header"}
  /\ last.err = Ok
  /\ \E r \in DOMAIN FinalizedBeaconHeaders :
       /\ r \notin DOMAIN last.pre.FinalizedBeaconHeaders
       /\ FinalizedBeaconHeaders[r].slot < last.pre.LatestFinalizedHeaderSlot
  /\ LatestFinalizedHeaderSlot = last.pre.LatestFinalizedHeaderSlot

\* C3: once an initial_sync has succeeded, every later initial_sync fails and
\* validators_root keeps the value written by the first one
C3_InitialSyncOnlyOnce ==
  (Ran("initial_sync") /\ last.synced) =>
    (last.err # Ok /\ ValidatorsRoot = last.pre.ValidatorsRoot)

\* C4: a committee stored at a period is never replaced by a different committee
C4_CommitteeNeverReplaced ==
  \A p \in DOMAIN last.pre.SyncCommittees :
    p \in DOMAIN SyncCommittees /\ SyncCommittees[p] = last.pre.SyncCommittees[p]

\* the three checks of a finalized header, evaluated on the payload of the last call
\* against the storage it found
FinalityProved(update) ==
  is_valid_merkle_branch(hash_tree_root_beacon_header(update.finalized_header).root,
                         update.finality_branch, 6, 41, update.attested_header.state_root)

ParticipationIsSupermajority(update) ==
  LET decoded == get_sync_committee_bits(update.sync_aggregate.sync_committee_bits)
  IN decoded.ok /\ SumSeq(decoded.bits) * 3 >= Len(decoded.bits) * 2

SignatureVerified(update, st) ==
  LET period == update.attested_header.slot \div 8192
  IN /\ period \in DOMAIN st.SyncCommittees
     /\ verify_signed_header(
          get_sync_committee_bits(update.sync_aggregate.sync_committee_bits).bits,
          update.sync_aggregate.sync_committee_signature,
          st.SyncCommittees[period].pubkeys,
          update.fork_version, update.attested_header, st.ValidatorsRoot) = Ok

\* the committee branch of initial_sync proves the committee at depth 5, index 22
CommitteeBranchProves(initial_sync_payload) ==
  /\ hash_tree_root_sync_committee(initial_sync_payload.current_sync_committee).ok
  /\ is_valid_merkle_branch(
       hash_tree_root_sync_committee(initial_sync_payload.current_sync_committee).root,
       initial_sync_payload.current_sync_committee_branch, 5, 22,
       initial_sync_payload.header.state_root)

\* the last call put a header in finalized_headers
InsertedFinalizedHeader ==
  \E r \in DOMAIN FinalizedBeaconHeaders :
    \/ r \notin DOMAIN last.pre.FinalizedBeaconHeaders
    \/ FinalizedBeaconHeaders[r] # last.pre.FinalizedBeaconHeaders[r]

\* C5 as stated: every call that puts a header in finalized_headers proved the
\* header by its finality branch, had a supermajority of participation bits and
\* verified the aggregate signature over the attested header
C5_EveryFinalizedHeaderProved ==
  InsertedFinalizedHeader =>
    /\ last.op \in {"sync_committee_period_update", "import_finalized_header"}
    /\ FinalityProved(last.payload)
    /\ ParticipationIsSupermajority(last.payload)
    /\ SignatureVerified(last.payload, last.pre)

\* C5 amended: a header enters finalized_headers either by initial_sync, which
\* checks only the current committee branch (depth 5, index 22), or by
\* sync_committee_period_update or import_finalized_header after all three checks
C5_FinalizedHeaderProvedOrInitial ==
  /\ InsertedFinalizedHeader =>
       \/ /\ last.op = "initial_sync"
          /\ CommitteeBranchProves(last.payload)
       \/ /\ last.op \in {"sync_committee_period_update", "import_finalized_header"}
          /\ FinalityProved(last.payload)
          /\ ParticipationIsSupermajority(last.payload)
          /\ SignatureVerified(last.payload, last.pre)
  /\ (last.op \in {"sync_committee_period_update", "import_finalized_header"}
        /\ last.err = Ok) =>
       /\ FinalityProved(last.payload)
       /\ ParticipationIsSupermajority(last.payload)
       /\ SignatureVerified(last.payload, last.pre)

\* an update has put a header in finalized_headers next to the initial one
C5_Witness ==
  /\ last.op \in {"sync_committee_period_update", "import_finalized_header"}
  /\ last.err = Ok
  /\ InsertedFinalizedHeader
  /\ Cardinality(DOMAIN FinalizedBeaconHeaders) >= 2

\* C6: every header in finalized_headers is stored under its hash tree root
C6_KeyIsHashTreeRoot ==
  \A r \in DOMAIN FinalizedBeaconHeaders :
    hash_tree_root_beacon_header(FinalizedBeaconHeaders[r]).root = r

\* the header of initial_sync and the finalized header of an update are stored
C6_Witness ==
  /\ last.op \in {"sync_committee_period_update", "import_finalized_header"}
  /\ last.err = Ok
  /\ Cardinality(DOMAIN FinalizedBeaconHeaders) = 2

\* C7: import_execution_header of a block above latest_finalized_slot fails with
\* HeaderNotFinalized and stores nothing, so that a stored execution header had
\* block.slot <= latest_finalized_slot when it was stored
C7_ExecutionHeaderFinalized ==
  Ran("import_execution_header") =>
    /\ last.payload.block.slot > last.pre.LatestFinalizedHeaderSlot =>
         /\ last.err = "HeaderNotFinalized"
         /\ last.returned = last.pre
         /\ Storage = last.pre
    /\ last.err = Ok => last.payload.block.slot <= last.pre.LatestFinalizedHeaderSlot

\* a block one slot above the latest finalized slot is refused although its period
\* has a committee and that committee's signature over the block header verifies
C7_Witness ==
  /\ Ran("import_execution_header")
  /\ last.payload.block.slot = last.pre.LatestFinalizedHeaderSlot + 1
  /\ last.err = "HeaderNotFinalized"
  /\ LET period == last.payload.block.slot \div 8192
     IN /\ period \in DOMAIN last.pre.SyncCommittees
        /\ verify_signed_header(
             get_sync_committee_bits(last.payload.sync_aggregate.sync_committee_bits).bits,
             last.payload.sync_aggregate.sync_committee_signature,
             last.pre.SyncCommittees[period].pubkeys,
             last.payload.fork_version, BlockHeader(last.payload.block),
             last.pre.ValidatorsRoot) = Ok

\* C8: no call writes to storage before a check that fails: the storage a failing
\* call leaves at its return is the storage it found
C8_NoWriteBeforeFailingCheck ==
  (last.op \in IngressOperations /\ last.err # Ok) => last.returned = last.pre

\* C9: initial_sync succeeds exactly when the branch proves the committee, and then
\* leaves the committee at period header.slot / 8192, the payload's validators
\* root, the header under its hash tree root and the larger of the previous latest
\* slot and header.slot
C9_InitialSyncEffect ==
  Ran("initial_sync") =>
    LET payload == last.payload
        period == payload.header.slot \div 8192
        root == hash_tree_root_beacon_header(payload.header).root
    IN /\ (last.err = Ok) <=> CommitteeBranchProves(payload)
       /\ last.err = Ok =>
            /\ period \in DOMAIN SyncCommittees
            /\ SyncCommittees[period] = payload.current_sync_committee
            /\ ValidatorsRoot = payload.validators_root
            /\ root \in DOMAIN FinalizedBeaconHeaders
            /\ FinalizedBeaconHeaders[root] = payload.header
            /\ LatestFinalizedHeaderSlot =
                 IF payload.header.slot > last.pre.LatestFinalizedHeaderSlot
                 THEN payload.header.slot ELSE last.pre.LatestFinalizedHeaderSlot

\* a successful initial_sync of a header of period 1
C9_Witness ==
  /\ Ran("initial_sync") /\ last.err = Ok
  /\ last.payload.header.slot >= 8192
  /\ 1 \in DOMAIN SyncCommittees

\* C10: an initial_sync whose branch does not reproduce header.state_root from the
\* hash tree root of the committee fails with InvalidSyncCommitteeMerkleProof and
\* writes nothing
C10_TamperedInitialSyncRejected ==
  (/\ Ran("initial_sync")
   /\ hash_tree_root_sync_committee(last.payload.current_sync_committee).ok
   /\ ~CommitteeBranchProves(last.payload)) =>
    /\ last.err = "InvalidSyncCommitteeMerkleProof"
    /\ last.returned = last.pre
    /\ Storage = last.pre

\* the committee's aggregate_pubkey was changed under a branch that proves the
\* original committee
C10_Witness ==
  /\ Ran("initial_sync")
  /\ last.err = "InvalidSyncCommitteeMerkleProof"
  /\ last.payload.current_sync_committee_branch = Branch(5)
  /\ \E c \in Committees :
       /\ last.payload.current_sync_committee = TamperedCommittee(c)
       /\ last.payload.header.state_root = CommitteeStateRoot(c, 5, 22)

\* the next committee branch of a period update proves the committee at depth 5,
\* index 23 against the finalized header's state root
NextCommitteeBranchProves(update) ==
  /\ hash_tree_root_sync_committee(update.next_sync_committee).ok
  /\ is_valid_merkle_branch(hash_tree_root_sync_committee(update.next_sync_committee).root,
                            update.next_sync_committee_branch, 5, 23,
                            update.finalized_header.state_root)

\* C11: a successful sync_committee_period_update leaves next_sync_committee at
\* period attested_header.slot / 8192 + 1 and the finalized header under its hash
\* tree root, and it succeeds only with a supermajority, a next committee branch
\* valid at depth 5 index 23 against finalized_header.state_root, a finality branch
\* valid at depth 6 index 41 against attested_header.state_root, and a verified
\* aggregate signature
C11_PeriodUpdateEffect ==
  (Ran("sync_committee_period_update") /\ last.err = Ok) =>
    LET update == last.payload
        period == update.attested_header.slot \div 8192
        root == hash_tree_root_beacon_header(update.finalized_header).root
    IN /\ (period + 1) \in DOMAIN SyncCommittees
       /\ SyncCommittees[period + 1] = update.next_sync_committee
       /\ root \in DOMAIN FinalizedBeaconHeaders
       /\ FinalizedBeaconHeaders[root] = update.finalized_header
       /\ ParticipationIsSupermajority(update)
       /\ NextCommitteeBranchProves(update)
       /\ FinalityProved(update)
       /\ SignatureVerified(update, last.pre)

\* a period update succeeded and stored a committee at a period that had none
C11_Witness ==
  /\ Ran("sync_committee_period_update") /\ last.err = Ok
  /\ LET period == last.payload.attested_header.slot \div 8192
     IN /\ (period + 1) \notin DOMAIN last.pre.SyncCommittees
        /\ (period + 1) \in DOMAIN SyncCommittees
        /\ SyncCommittees[period + 1] # SyncCommittees[period]

\* the last call was an update whose participation is a supermajority and whose
\* Merkle branches prove, and no committee is stored for the attested period
UpdateWithoutCommittee ==
  /\ last.origin = "Signed"
  /\ ParticipationIsSupermajority(last.payload)
  /\ FinalityProved(last.payload)
  /\ last.op = "sync_committee_period_update" => NextCommitteeBranchProves(last.payload)
  /\ (last.payload.attested_header.slot \div 8192) \notin DOMAIN last.pre.SyncCommittees

\* C12: a sync_committee_period_update or import_finalized_header that passes the
\* supermajority check and the Merkle checks while no committee is stored for the
\* period of the attested header fails with SyncCommitteeMissing
C12_MissingCommitteeReported ==
  (last.op \in {"sync_committee_period_update", "import_finalized_header"}
     /\ UpdateWithoutCommittee) => last.err = "SyncCommitteeMissing"

\* the last direct call was of fn and has returned
Returned(fn) == call.fn = fn /\ call.done

\* number of elements of a vector that are 1
Ones(bits) == Cardinality({i \in 1..Len(bits) : bits[i] = 1})

\* C13: on a vector of 0 and 1 of length L, the supermajority test succeeds exactly
\* when 3 * sum >= 2 * L and fails with SyncCommitteeParticipantsNotSupermajority
\* otherwise; a period update or finalized header update whose decoded bits are
\* no supermajority fails with that error, whatever its branches and signature
\* are, and writes nothing
C13_SupermajorityExact ==
  /\ Returned("sync_committee_participation_is_supermajority") =>
       LET bits == call.args.sync_committee_bits
       IN call.result = IF Ones(bits) * 3 >= Len(bits) * 2 THEN Ok
                        ELSE "SyncCommitteeParticipantsNotSupermajority"
  /\ (Returned("process_sync_committee_period_update")
        \/ Returned("process_finalized_header")) =>
       LET decoded == get_sync_committee_bits(
                        call.args.update.sync_aggregate.sync_committee_bits)
       IN (decoded.ok /\ Ones(decoded.bits) * 3 < Len(decoded.bits) * 2) =>
            /\ call.result.err = "SyncCommitteeParticipantsNotSupermajority"
            /\ call.result.st = call.args.st

\* 341 of 512 members participated and the test failed
C13_Witness ==
  /\ Returned("sync_committee_participation_is_supermajority")
  /\ Len(call.args.sync_committee_bits) = 512
  /\ Ones(call.args.sync_committee_bits) = 341
  /\ call.result = "SyncCommitteeParticipantsNotSupermajority"

\* the checks of an update that come before its signature check pass on storage st
ReachesSignatureCheck(fn, update, st) ==
  /\ ParticipationIsSupermajority(update)
  /\ FinalityProved(update)
  /\ fn = "process_sync_committee_period_update" => NextCommitteeBranchProves(update)
  /\ fn = "process_finalized_header" =>
       (update.attested_header.slot \div 8192) \in DOMAIN st.SyncCommittees

\* the signing root of the attested header under the domain of DOMAIN_SYNC_COMMITTEE,
\* the update's fork version and the stored validators root
AttestedSigningRoot(update, st) ==
  sha2_256(hash_tree_root_beacon_header(update.attested_header).root,
           <<Chunk(7), sha2_256(Chunk(update.fork_version), st.ValidatorsRoot)>>)

\* the signature of the update is a signature over its attested header by exactly
\* the members with bit 1 of the committee stored for the attested header's period
SignedByParticipants(update, st) ==
  LET period == update.attested_header.slot \div 8192
      bits == get_sync_committee_bits(update.sync_aggregate.sync_committee_bits).bits
      signature == update.sync_aggregate.sync_committee_signature
  IN /\ period \in DOMAIN st.SyncCommittees
     /\ LET pubkeys == st.SyncCommittees[period].pubkeys
            signing == {i \in 1..Len(pubkeys) : bits[i] = 1}
        IN /\ signing # {}
           /\ \A i \in signing : pubkeys[i] >= 1
           /\ signature.decodable
           /\ signature.message = AttestedSigningRoot(update, st)
           /\ signature.signers =
                SumSeq([i \in 1..Len(pubkeys) |-> IF i \in signing THEN pubkeys[i] ELSE 0])

\* C14: a period update or finalized header update that reaches its signature
\* check succeeds exactly when its signature is one over the signing root of the
\* attested header, under the domain of DOMAIN_SYNC_COMMITTEE, the update's fork
\* version and the stored validators root, by exactly the members with bit 1 of
\* the committee stored at the period of the attested header's slot
C14_SignatureOverAttestedHeader ==
  (/\ Returned("process_sync_committee_period_update") \/ Returned("process_finalized_header")
   /\ ReachesSignatureCheck(call.fn, call.args.update, call.args.st)) =>
    ((call.result.err = Ok) <=> SignedByParticipants(call.args.update, call.args.st))

\* with CommitteeA stored at period 0 and CommitteeB at period 1, an update attested
\* in period 1 and signed by CommitteeB is accepted
C14_Witness ==
  /\ Returned("process_finalized_header")
  /\ call.args.st = RotatedStorage
  /\ call.args.st.SyncCommittees[0] # call.args.st.SyncCommittees[1]
  /\ call.args.update.attested_header.slot \div 8192 = 1
  /\ call.result.err = Ok

\* the public keys of the participants, taken from the committee stored for the
\* attested period, all decode
ParticipantKeysDecode ==
  LET period == last.payload.attested_header.slot \div 8192
      bits == get_sync_committee_bits(last.payload.sync_aggregate.sync_committee_bits).bits
      pubkeys == last.pre.SyncCommittees[period].pubkeys
  IN \A i \in 1..Len(pubkeys) : bits[i] = 1 => pubkeys[i] >= 1

\* the last call was a period update that passed the supermajority check and both
\* Merkle checks and found a committee for the attested period, whose signature
\* and participants' public keys decode, and whose signature is not a signature of
\* the participants over the attested header: the pairing check fails
PeriodUpdateWithBadSignature ==
  /\ Ran("sync_committee_period_update")
  /\ ReachesSignatureCheck("process_finalized_header", last.payload, last.pre)
  /\ NextCommitteeBranchProves(last.payload)
  /\ last.payload.sync_aggregate.sync_committee_signature.decodable
  /\ ParticipantKeysDecode
  /\ ~SignedByParticipants(last.payload, last.pre)

C16_GetReportsWrittenPeriods ==
  \A period \in 0..(MaxPeriod + 2) :
    LET got == get_sync_committee_for_period(Storage, period)
    IN IF period \in DOMAIN SyncCommittees
       THEN got.err = Ok /\ got.sync_committee = SyncCommittees[period]
       ELSE got.err = "SyncCommitteeMissing"

\* the committee of all-zero keys is stored at period 0 and reported present, and
\* period 1 was never written
C16_Witness ==
  /\ 0 \in DOMAIN SyncCommittees
  /\ SyncCommittees[0] = ZeroCommittee
  /\ get_sync_committee_for_period(Storage, 0).err = Ok
  /\ 1 \notin DOMAIN SyncCommittees
  /\ get_sync_committee_for_period(Storage, 1).err = "SyncCommitteeMissing"

\* C17: is_valid_merkle_branch returns false when the branch has not `depth`
\* siblings, and otherwise returns true exactly when folding the leaf with the
\* siblings, sibling i on the right when bit i of the index ((index >> i) & 1) is 0
\* and on the left when it is 1, gives the root
C17_MerkleBranchFold ==
  Returned("is_valid_merkle_branch") =>
    LET a == call.args
    IN /\ ~call.result.panic
       /\ call.result.valid =
            IF Len(a.branch) # a.depth THEN FALSE
            ELSE merkle_root(a.leaf, a.branch, a.depth, a.index) = a.root

\* the branches drawn at a depth
BranchesAt(depth) == IF depth \in LongDepths THEN LongBranches(depth) ELSE Branches(depth)

\* (leaf, branch) is (leaf0, branch0) with the leaf or exactly one sibling replaced
\* by a different value
OneReplaced(leaf0, branch0, leaf, branch) ==
  \/ leaf # leaf0 /\ branch = branch0
  \/ /\ leaf = leaf0
     /\ Cardinality({i \in 1..Len(branch0) : branch[i] # branch0[i]}) = 1

\* C18: with a collision-free hash, the verifier accepts the root constructed from
\* the leaf, the branch, the index and the depth it is given, and rejects when the
\* root is another value or is the root constructed from a leaf and branch of
\* which the leaf or one sibling has been replaced
C18_MerkleRoundTrip ==
  (Returned("is_valid_merkle_branch") /\ Len(call.args.branch) = call.args.depth) =>
    LET a == call.args
        constructed == merkle_root(a.leaf, a.branch, a.depth, a.index)
    IN /\ a.root = constructed => (call.result.valid /\ ~call.result.panic)
       /\ a.root # constructed => (~call.result.valid /\ ~call.result.panic)
       /\ \A leaf0 \in MerkleWords, branch0 \in BranchesAt(a.depth) :
            (/\ a.root = merkle_root(leaf0, branch0, a.depth, a.index)
             /\ OneReplaced(leaf0, branch0, a.leaf, a.branch)) =>
              (~call.result.valid /\ ~call.result.panic)

\* the first step of the last call failed to decode the participation bits (period
\* update, finalized header update) or to compute the hash tree root of the
\* committee (initial_sync)
DecodingFailed ==
  /\ last.origin = "Signed"
  /\ \/ /\ last.op \in {"sync_committee_period_update", "import_finalized_header"}
        /\ ~get_sync_committee_bits(last.payload.sync_aggregate.sync_committee_bits).ok
     \/ /\ last.op = "initial_sync"
        /\ ~hash_tree_root_sync_committee(last.payload.current_sync_committee).ok

\* C19: a call in which the decoding of the sync committee bits or a hash tree
\* root computation fails returns InvalidHash
C19_DecodingFailureIsInvalidHash ==
  DecodingFailed => last.err = "InvalidHash"

\* the slots of the headers in finalized_headers
FinalizedSlots == {FinalizedBeaconHeaders[r].slot : r \in DOMAIN FinalizedBeaconHeaders}

\* C20: latest_finalized_slot is the largest slot of the headers inserted into
\* finalized_headers, and 0 when there is none: no header has a larger slot, and a
\* latest slot other than 0 is the slot of one of them
C20_LatestSlotIsMaximum ==
  /\ \A slot \in FinalizedSlots : slot <= LatestFinalizedHeaderSlot
  /\ LatestFinalizedHeaderSlot # 0 => LatestFinalizedHeaderSlot \in FinalizedSlots
  /\ FinalizedSlots = {} => LatestFinalizedHeaderSlot = 0

\* the last call inserted a header below the latest slot, which is the slot of a
\* header inserted before
C20_Witness ==
  /\ last.err = Ok
  /\ InsertedFinalizedHeader
  /\ Cardinality(FinalizedSlots) = 2
  /\ \E r \in (DOMAIN FinalizedBeaconHeaders) \ (DOMAIN last.pre.FinalizedBeaconHeaders) :
       FinalizedBeaconHeaders[r].slot < LatestFinalizedHeaderSlot
  /\ LatestFinalizedHeaderSlot \in FinalizedSlots

\* C21: import_finalized_header, whether it succeeds or fails, leaves
\* sync_committees, execution_headers and validators_root as they were, at its
\* return and after the storage layer; when it succeeds it inserts one header in
\* finalized_headers and changes latest_finalized_slot at most
C21_FinalizedHeaderFrame ==
  last.op = "import_finalized_header" =>
    /\ \A st \in {last.returned, Storage} :
         /\ st.SyncCommittees = last.pre.SyncCommittees
         /\ st.ExecutionHeaders = last.pre.ExecutionHeaders
         /\ st.ValidatorsRoot = last.pre.ValidatorsRoot
    /\ last.err = Ok =>
         \E r \in DOMAIN FinalizedBeaconHeaders :
           FinalizedBeaconHeaders =
             Insert(last.pre.FinalizedBeaconHeaders, r, last.payload.finalized_header)

\* an import_finalized_header that found a committee and a validators root stored
\* a new header and raised the latest finalized slot
C21_Witness ==
  /\ Ran("import_finalized_header")
  /\ last.err = Ok
  /\ last.pre.SyncCommittees # EmptyMap
  /\ last.pre.ValidatorsRoot # ZeroHash
  /\ DOMAIN FinalizedBeaconHeaders # DOMAIN last.pre.FinalizedBeaconHeaders
  /\ LatestFinalizedHeaderSlot > last.pre.LatestFinalizedHeaderSlot

\* C22: a successful import_execution_header changes execution_headers only: it
\* inserts one record under the key execution_payload.block_hash, whose block_hash
\* field is that key, and leaves finalized_headers, sync_committees,
\* validators_root and latest_finalized_slot as they were; every record of
\* execution_headers is stored under its own block_hash
C22_ExecutionHeaderKeyedByBlockHash ==
  /\ (last.op = "import_execution_header" /\ last.err = Ok) =>
       LET execution_payload == last.payload.block.body.execution_payload
           k == execution_payload.block_hash
       IN /\ k \in DOMAIN ExecutionHeaders
          /\ ExecutionHeaders[k].block_hash = k
          /\ \A f \in DOMAIN ExecutionHeaders[k] : ExecutionHeaders[k][f] = execution_payload[f]
          /\ ExecutionHeaders = Insert(last.pre.ExecutionHeaders, k, ExecutionHeaders[k])
          /\ FinalizedBeaconHeaders = last.pre.FinalizedBeaconHeaders
          /\ SyncCommittees = last.pre.SyncCommittees
          /\ ValidatorsRoot = last.pre.ValidatorsRoot
          /\ LatestFinalizedHeaderSlot = last.pre.LatestFinalizedHeaderSlot
  /\ \A k \in DOMAIN ExecutionHeaders : ExecutionHeaders[k].block_hash = k

\* an import_execution_header stored an execution header that was not there
C22_Witness ==
  /\ Ran("import_execution_header")
  /\ last.err = Ok
  /\ last.pre.ExecutionHeaders = EmptyMap
  /\ DOMAIN ExecutionHeaders = {last.payload.block.body.execution_payload.block_hash}

\* the operations that verify an aggregate signature
VerifyingOperations == {"sync_committee_period_update", "import_finalized_header",
                        "import_execution_header"}

\* the slot of the header the last call verifies the signature over
SignedSlot ==
  IF last.op = "import_execution_header" THEN last.payload.block.slot
  ELSE last.payload.attested_header.slot

\* the members whose public keys the last call hands to the signature check: those
\* with bit 1 of the committee read for the period of the signed header, which has
\* no keys when the period was never written
SelectedMembers ==
  LET period == SignedSlot \div 8192
      pubkeys == IF period \in DOMAIN last.pre.SyncCommittees
                 THEN last.pre.SyncCommittees[period].pubkeys ELSE <<>>
      bits == get_sync_committee_bits(last.payload.sync_aggregate.sync_committee_bits).bits
  IN {i \in 1..Len(pubkeys) : i <= Len(bits) /\ bits[i] = 1}

\* the last call passed every check that comes before its signature check
ReachedSignatureCheck ==
  /\ last.op \in VerifyingOperations
  /\ last.origin = "Signed"
  /\ IF last.op = "import_execution_header"
     THEN /\ last.payload.block.slot <= last.pre.LatestFinalizedHeaderSlot
          /\ (SignedSlot \div 8192) \in DOMAIN last.pre.SyncCommittees
          /\ get_sync_committee_bits(last.payload.sync_aggregate.sync_committee_bits).ok
     ELSE ReachesSignatureCheck(IF last.op = "import_finalized_header"
                                THEN "process_finalized_header"
                                ELSE "process_sync_committee_period_update",
                                last.payload, last.pre)

\* C23: a signature check over no participating public key (every participation
\* bit 0, or a committee without keys) with a signature that decodes fails with
\* InvalidAggregatePublicKeys, and no operation that verifies a signature succeeds
\* with no participant
C23_NoParticipantsRejected ==
  /\ (/\ ReachedSignatureCheck
      /\ SelectedMembers = {}
      /\ last.payload.sync_aggregate.sync_committee_signature.decodable) =>
       last.err = "InvalidAggregatePublicKeys"
  /\ (last.op \in VerifyingOperations /\ last.err = Ok) => SelectedMembers # {}

\* an import_execution_header of a finalized block whose period has a committee
\* came with every participation bit 0 and a signature that decodes
C23_Witness ==
  /\ ReachedSignatureCheck
  /\ last.op = "import_execution_header"
  /\ SumSeq(get_sync_committee_bits(last.payload.sync_aggregate.sync_committee_bits).bits) = 0
  /\ last.payload.sync_aggregate.sync_committee_signature.decodable
  /\ last.err = "InvalidAggregatePublicKeys"

\* C24: as long as no initial_sync has succeeded, every sync_committee_period_update,
\* import_finalized_header and import_execution_header fails, and finalized_headers,
\* execution_headers and sync_committees are empty and latest_finalized_slot is 0
C24_UninitRefusesUpdates ==
  /\ (last.op \in VerifyingOperations /\ ~last.synced) => last.err # Ok
  /\ ~synced =>
       /\ FinalizedBeaconHeaders = EmptyMap
       /\ ExecutionHeaders = EmptyMap
       /\ SyncCommittees = EmptyMap
       /\ LatestFinalizedHeaderSlot = 0

\* before any initial_sync, a period update passed every check up to the signature
\* check and had stored its next committee when the signature check failed
C24_Witness ==
  /\ ~synced
  /\ ReachedSignatureCheck
  /\ last.op = "sync_committee_period_update"
  /\ last.payload.sync_aggregate.sync_committee_signature.signers = 0
  /\ last.err # Ok
  /\ last.returned.SyncCommittees # EmptyMap
  /\ Storage = GenesisStorage

\* the signature of the last call, an import_execution_header, is a signature over
\* the header reconstructed from its block, under the domain of
\* DOMAIN_SYNC_COMMITTEE, the update's fork version and the stored validators
\* root, by exactly the members with bit 1 of the committee stored for the
\* period of the block's slot, of which there is at least one
BlockSignedByParticipants ==
  LET period == last.payload.block.slot \div 8192
      signature == last.payload.sync_aggregate.sync_committee_signature
      pubkeys == last.pre.SyncCommittees[period].pubkeys
  IN /\ SelectedMembers # {}
     /\ \A i \in SelectedMembers : pubkeys[i] >= 1
     /\ signature.decodable
     /\ signature.message =
          AttestedSigningRoot([attested_header |-> BlockHeader(last.payload.block),
                               fork_version |-> last.payload.fork_version], last.pre)
     /\ signature.signers =
          SumSeq([i \in 1..Len(pubkeys) |-> IF i \in SelectedMembers THEN pubkeys[i] ELSE 0])

\* C25: import_execution_header asks for no supermajority: a block at or below
\* latest_finalized_slot whose period has a stored committee is accepted with any
\* participation bits of which at least one is set, when the signature is the
\* aggregate signature of the selected members over the reconstructed header
C25_ExecutionHeaderWithoutSupermajority ==
  (/\ ReachedSignatureCheck
   /\ last.op = "import_execution_header"
   /\ BlockSignedByParticipants) =>
    /\ last.err = Ok
    /\ last.payload.block.body.execution_payload.block_hash \in DOMAIN ExecutionHeaders

\* an import_execution_header signed by fewer than two thirds of the committee
\* was accepted
C25_Witness ==
  /\ Ran("import_execution_header")
  /\ BlockSignedByParticipants
  /\ Cardinality(SelectedMembers) * 3 < SYNC_COMMITTEE_SIZE * 2
  /\ last.err = Ok
  /\ ExecutionHeaders # last.pre.ExecutionHeaders

\* the last call was a period update or a finalized header update that passes every
\* check: supermajority, Merkle branches, a committee stored for the attested
\* period, and the signature of its participants over the attested header
UpdatePassesAllChecks ==
  /\ last.op \in {"sync_committee_period_update", "import_finalized_header"}
  /\ ReachedSignatureCheck
  /\ SignedByParticipants(last.payload, last.pre)

\* the values tried for the payload field sync_committee_period
PeriodNumbers == 0..(MaxPeriod + 7)

\* C26: a period update or finalized header update that passes every check and
\* whose finalized header is below latest_finalized_slot succeeds, inserts the
\* header in finalized_headers and leaves latest_finalized_slot as it was; no call
\* returns AncientHeader, SkippedSyncCommitteePeriod or NoBranchExpected; and the
\* payload field sync_committee_period changes neither the error returned nor the
\* storage left by a period update
C26_AncientHeaderAccepted ==
  /\ (/\ UpdatePassesAllChecks
      /\ last.payload.finalized_header.slot < last.pre.LatestFinalizedHeaderSlot) =>
       LET r == hash_tree_root_beacon_header(last.payload.finalized_header).root
       IN /\ last.err = Ok
          /\ r \in DOMAIN FinalizedBeaconHeaders
          /\ FinalizedBeaconHeaders[r] = last.payload.finalized_header
          /\ LatestFinalizedHeaderSlot = last.pre.LatestFinalizedHeaderSlot
  /\ last.err \notin {"AncientHeader", "SkippedSyncCommitteePeriod", "NoBranchExpected"}
  /\ Ran("sync_committee_period_update") =>
       \A p \in PeriodNumbers :
         process_sync_committee_period_update(
           last.pre, [last.payload EXCEPT !.sync_committee_period = p])
         = Res(last.err, last.returned)

\* with the latest finalized slot at 5, the header of slot 0 was imported: it is a
\* new entry of finalized_headers and the latest finalized slot is still 5
C26_Witness ==
  /\ UpdatePassesAllChecks
  /\ last.op = "import_finalized_header"
  /\ last.payload.finalized_header.slot < last.pre.LatestFinalizedHeaderSlot
  /\ last.err = Ok
  /\ Cardinality(DOMAIN FinalizedBeaconHeaders)
       = Cardinality(DOMAIN last.pre.FinalizedBeaconHeaders) + 1
  /\ LatestFinalizedHeaderSlot = last.pre.LatestFinalizedHeaderSlot

====
